---- MODULE Spec2Model ----
(***************************************************************************)
(* Model of dynamo/tools/pseudotime.py: the DFS ordering of a principal    *)
(* tree (get_order_from_DDRTree), root selection (select_root_cell), the   *)
(* reprojection of the cells onto the tree (project2MST) and the driver    *)
(* order_cells, which writes its results into the data container adata.    *)
(*                                                                         *)
(* Vertices and cells are numbered from 0 as in the code.  A graph built   *)
(* from a spanning-tree matrix is kept as its set of edges {u, v}; the     *)
(* code queries it only through neighbors, degree, dfs and get_diameter,   *)
(* all in mode "all".  Coordinates are one-dimensional integers (dim = 1), *)
(* so the euclidean distance of two points is the absolute difference.     *)
(***************************************************************************)
EXTENDS Integers, Sequences, FiniteSets, TLC

\* ------------------------------------------------------------------ bounds
MaxVertices == 4

MaxCoord == 2

MaxCells == 3

MaxRuns == 2

MaxRootState == 1

MaxPoints == 4

MaxDim == 4

MaxCores == 3

MaxBatch == 3
\* cells of a container whose refined tree can branch
BranchCells == 4
\* calls of jacobian and divergence made on one container
MaxCalls == 2
\* cells of the container jacobian and divergence are called on
MaxObs == 2

\* ------------------------------------------------------ general helpers
Abs(x) == IF x < 0 THEN -x ELSE x

Range(s) == {s[k] : k \in 1..Len(s)}

SetMax(S) == CHOOSE x \in S : \A y \in S : y <= x

SetMin(S) == CHOOSE x \in S : \A y \in S : x <= y

\* Python's None, for root_state and for the stored root_cell
None == -1

\* ------------------------------------------------------------ the graph
Pairs(n) == {{u, v} : u, v \in 0..(n - 1)} \ {{u} : u \in 0..(n - 1)}

neighbors(E, v) == {u \in UNION E : {u, v} \in E /\ u # v}

degree(E, v) == Cardinality(neighbors(E, v))

RECURSIVE ReachFrom(_, _)
ReachFrom(E, S) ==
    LET T == S \cup UNION {neighbors(E, v) : v \in S}
    IN  IF T = S THEN S ELSE ReachFrom(E, T)

RECURSIVE NumComponents(_, _)
NumComponents(E, V) ==
    IF V = {} THEN 0
    ELSE LET v == CHOOSE x \in V : TRUE
         IN  1 + NumComponents(E, V \ ReachFrom(E, {v}))

\* the spanning forests of the graph G on the vertices 0..n-1: the acyclic
\* subgraphs with the components of G (the spanning trees when G is connected)
SpanningForests(G, n) ==
    LET size == n - NumComponents(G, 0..(n - 1))
        comp == [v \in 0..(n - 1) |-> ReachFrom(G, {v})]
    IN  {F \in SUBSET G :
            /\ Cardinality(F) = size
            /\ \A v \in 0..(n - 1) : ReachFrom(F, {v}) = comp[v]}

\* the spanning trees on the vertices 0..n-1, for every size the model uses
TreeTable ==
    [n \in 0..SetMax({MaxVertices, MaxCells}) |->
        SpanningForests(Pairs(n), n)]

Trees(n) == TreeTable[n]

RECURSIVE TotalWeight(_, _)
TotalWeight(F, w) ==
    IF F = {} THEN 0
    ELSE LET e == CHOOSE x \in F : TRUE
             u == SetMin(e)
             v == SetMax(e)
         IN  w[u][v] + TotalWeight(F \ {e}, w)

\* minimum_spanning_tree / Graph.spanning_tree(weights): a zero entry of the
\* matrix is no edge; which of several minimum trees is returned is left to
\* the library
MinSpanningForests(w, n) ==
    LET G    == {e \in Pairs(n) : w[SetMin(e)][SetMax(e)] # 0}
        Fs   == IF G = Pairs(n) THEN Trees(n) ELSE SpanningForests(G, n)
        cost == [F \in Fs |-> TotalWeight(F, w)]
        least == SetMin({cost[F] : F \in Fs})
    IN  {F \in Fs : cost[F] = least}

\* distance.squareform(distance.pdist(Y.T)) for one-dimensional points
pdist(Y) == [u \in DOMAIN Y |-> [v \in DOMAIN Y |-> Abs(Y[u] - Y[v])]]

\* Graph.dfs(vid, mode="all"): an explicit stack of (vertex, neighbours still
\* to try); the neighbour list is sorted and pop() takes its last element.
\* The root is recorded as its own parent.
RECURSIVE DfsLoop(_, _, _, _)
DfsLoop(E, stack, vids, parents) ==
    IF stack = << >> THEN [orders |-> vids, pres |-> parents]
    ELSE LET top  == stack[Len(stack)]
             vid  == top[1]
             nbrs == top[2]
         IN  IF nbrs # {}
             THEN LET neighbor == SetMax(nbrs)
                      stack1   == [stack EXCEPT ![Len(stack)] = <<vid, nbrs \ {neighbor}>>]
                  IN  IF neighbor \notin Range(vids)
                      THEN DfsLoop(E, Append(stack1, <<neighbor, neighbors(E, neighbor)>>),
                                   Append(vids, neighbor), Append(parents, vid))
                      ELSE DfsLoop(E, stack1, vids, parents)
             ELSE DfsLoop(E, SubSeq(stack, 1, Len(stack) - 1), vids, parents)

dfs(E, vid) == DfsLoop(E, << <<vid, neighbors(E, vid)>> >>, <<vid>>, <<vid>>)

\* ------------------------------------------- get_order_from_DDRTree
\* the locals before the loop
OrderStart(n) ==
    [curr_state    |-> 0,
     pseudotimes   |-> [v \in 0..(n - 1) |-> 0],
     ordering_dict |-> [cell_index |-> << >>, cell_pseudo_state |-> << >>,
                        pseudo_time |-> << >>, parent |-> << >>]]

\* the test that separates a vertex with a parent from the root
HasParent(pre) == pre > 0

\* a branch test that already fires on a parent of degree 2
IsBranch_low(E, parent_node) == degree(E, parent_node) > 1

\* the test that makes a parent a branch point
IsBranch(E, parent_node) == degree(E, parent_node) > 2

\* a root that does not start at pseudotime 0
RootPseudotime_off == 0 + 1

\* the pseudotime given to a vertex without parent
RootPseudotime == 0

\* one iteration of the loop, for position k (0-based) of the DFS order
OrderBody(d, E, ord, pre, st, k) ==
    LET curr_node   == ord[k + 1]
        has_parent  == HasParent(pre[k + 1])
        parent_node == IF has_parent THEN pre[k + 1] ELSE -1
        curr_node_pseudotime ==
            IF has_parent
            THEN st.pseudotimes[parent_node] + d[curr_node][parent_node]
            ELSE RootPseudotime
        state1 == IF has_parent /\ IsBranch(E, parent_node)
                  THEN st.curr_state + 1 ELSE st.curr_state
        pts1   == [st.pseudotimes EXCEPT ![curr_node] = curr_node_pseudotime]
        od     == st.ordering_dict
    IN  [curr_state    |-> state1,
         pseudotimes   |-> pts1,
         ordering_dict |->
            [cell_index        |-> Append(od.cell_index, curr_node),
             cell_pseudo_state |-> Append(od.cell_pseudo_state, state1),
             pseudo_time       |-> Append(od.pseudo_time, pts1[curr_node]),
             parent            |-> Append(od.parent, parent_node)]]

\* DataFrame.from_dict, set_index('cell_index'), sort_index: the rows in
\* increasing order of cell_index
RECURSIVE SortRows(_)
SortRows(rows) ==
    IF rows = {} THEN << >>
    ELSE LET lo == CHOOSE r \in rows : \A q \in rows : r.cell_index <= q.cell_index
         IN  <<lo>> \o SortRows(rows \ {lo})

\* the rows left in the order of the visits
OrderFrame_unsorted(od) ==
    [k \in 1..Len(od.cell_index) |->
        [cell_index        |-> od.cell_index[k],
         cell_pseudo_state |-> od.cell_pseudo_state[k],
         pseudo_time       |-> od.pseudo_time[k],
         parent            |-> od.parent[k]]]

OrderFrame(od) ==
    SortRows({[cell_index        |-> od.cell_index[k],
               cell_pseudo_state |-> od.cell_pseudo_state[k],
               pseudo_time       |-> od.pseudo_time[k],
               parent            |-> od.parent[k]] : k \in 1..Len(od.cell_index)})

RECURSIVE OrderLoop(_, _, _, _, _, _)
OrderLoop(d, E, ord, pre, st, k) ==
    IF k >= Len(ord) THEN st
    ELSE OrderLoop(d, E, ord, pre, OrderBody(d, E, ord, pre, st, k), k + 1)

\* the whole function, as order_cells calls it
get_order_from_DDRTree(d, E, root) ==
    LET t == dfs(E, root)
    IN  OrderFrame(OrderLoop(d, E, t.orders, t.pres, OrderStart(Cardinality(DOMAIN d)), 0).ordering_dict)

\* DataFrame access: a column in row order, and .loc[label, column]
Column(df, col) == [c \in 0..(Len(df) - 1) |-> df[c + 1][col]]

Loc(df, label, col) == (CHOOSE r \in Range(df) : r.cell_index = label)[col]

\* ----------------------------------------------------- get_diameter
\* The unweighted diameter path as the library finds it: a breadth-first
\* search from every vertex in increasing order, neighbours in increasing
\* order; the first vertex dequeued at a strictly larger distance than any
\* seen so far becomes the far end, its source the near end.
RECURSIVE AscSeq(_)
AscSeq(S) == IF S = {} THEN << >> ELSE <<SetMin(S)>> \o AscSeq(S \ {SetMin(S)})

RECURSIVE BfsLoop(_, _, _, _, _)
BfsLoop(E, src, queue, seen, best) ==
    IF queue = << >> THEN best
    ELSE LET actnode == queue[1][1]
             actdist == queue[1][2]
             best1   == IF actdist > best.res
                        THEN [res |-> actdist, from |-> src, to |-> actnode]
                        ELSE best
             fresh   == neighbors(E, actnode) \ seen
             pushed  == [k \in 1..Cardinality(fresh) |-> <<AscSeq(fresh)[k], actdist + 1>>]
         IN  BfsLoop(E, src, Tail(queue) \o pushed, seen \cup fresh, best1)

RECURSIVE DiameterEnds(_, _, _, _)
DiameterEnds(E, n, src, best) ==
    IF src >= n THEN best
    ELSE DiameterEnds(E, n, src + 1, BfsLoop(E, src, << <<src, 0>> >>, {src}, best))

\* the path between two vertices of one component of a forest
RECURSIVE TreePath(_, _, _)
TreePath(E, a, b) ==
    IF a = b THEN <<a>>
    ELSE LET c == CHOOSE x \in neighbors(E, a) : b \in ReachFrom(E \ {{a, x}}, {x})
         IN  <<a>> \o TreePath(E \ {{a, c}}, c, b)

get_diameter(E, n) ==
    IF n = 0 THEN << >>
    ELSE LET ends == DiameterEnds(E, n, 0, [res |-> 0, from |-> 0, to |-> 0])
         IN  TreePath(E, ends.from, ends.to)

\* ----------------------------------------------------------- project2MST
\* 0/0 in proj_point_on_line
NaN == -2

\* np.where(z == np.min(z))[0][0]: the first vertex at minimum distance
find_cell_proj_closest_vertex(Zc, Yc) ==
    [c \in DOMAIN Zc |->
        SetMin({v \in DOMAIN Yc :
                    \A u \in DOMAIN Yc : Abs(Zc[c] - Yc[v]) <= Abs(Zc[c] - Yc[u])})]

\* q, the closest point to p on the segment from A to B
project_point_to_line_segment(p, A, B) ==
    LET AB         == B - A
        AB_squared == AB * AB
        Ap         == p - A
    IN  IF AB_squared = 0 THEN A
        ELSE IF Ap * AB < 0 THEN A                    \* t < 0
        ELSE IF Ap * AB > AB_squared THEN B           \* t > 1
        ELSE A + ((Ap * AB) * AB) \div AB_squared     \* A + t * AB

\* a projection of the tips that is clamped to the segment
proj_point_on_line_clamped(point, A, B) == project_point_to_line_segment(point, A, B)

\* the projection of point on the whole line through A and B
proj_point_on_line(point, A, B) ==
    LET ap == point - A
        ab == B - A
    IN  IF ab * ab = 0 THEN NaN
        ELSE A + ((ap * ab) * ab) \div (ab * ab)

TipLeaves(E, n) == {v \in 0..(n - 1) : degree(E, v) = 1}

\* the candidate projection of cell coordinate z for one neighbour
Candidate(E, n, Yc, z, cv, neighbor) ==
    IF cv \in TipLeaves(E, n)
    THEN proj_point_on_line(z, Yc[cv], Yc[neighbor])
    ELSE project_point_to_line_segment(z, Yc[cv], Yc[neighbor])

CandDist(z, tmp) == IF tmp = NaN THEN NaN ELSE Abs(z - tmp)

\* a result that is an exception
Raise(e) == [raised |-> TRUE, err |-> e]

\* distances left as they are, coincident projections at distance 0
AddFloor_none(d0, min_dist) == d0

\* lines 175-176: dp += min_dist, then np.fill_diagonal(dp, 0)
AddFloor(d0, min_dist) ==
    [a \in DOMAIN d0 |-> [b \in DOMAIN d0 |-> IF a = b THEN 0 ELSE d0[a][b] + min_dist]]

\* The outcomes of project2MST(mst, Z, Y, project_point_to_line_segment):
\* the returned tuple for every minimum spanning tree the library may pick,
\* or the exception raised.
project2MST(E, Zc, Yc) ==
    LET n  == Cardinality(DOMAIN Yc)
        closest_vertex == find_cell_proj_closest_vertex(Zc, Yc)
        Bad(c) ==
            LET nb == neighbors(E, closest_vertex[c])
            IN  \/ nb = {}
                \/ \E x \in nb : Candidate(E, n, Yc, Zc[c], closest_vertex[c], x) = NaN
        Proj(c) ==
            LET cv   == closest_vertex[c]
                nb   == neighbors(E, cv)
                dist == [x \in nb |-> CandDist(Zc[c], Candidate(E, n, Yc, Zc[c], cv, x))]
                best == SetMin({x \in nb : \A y \in nb : dist[x] <= dist[y]})
            IN  Candidate(E, n, Yc, Zc[c], cv, best)
    IN  IF \E c \in DOMAIN Zc : neighbors(E, closest_vertex[c]) = {}
        THEN {Raise("ValueError: zero-size array")}
        ELSE IF \E c \in DOMAIN Zc : Bad(c)
        THEN {Raise("IndexError")}
        ELSE LET P     == [c \in DOMAIN Zc |-> Proj(c)]
                 d0    == pdist(P)
                 nz    == {d0[a][b] : a, b \in DOMAIN P} \ {0}
             IN  IF nz = {}
                 THEN {Raise("ValueError: zero-size array")}
                 ELSE LET min_dist == SetMin(nz)
                          d1 == AddFloor(d0, min_dist)
                      IN  {[raised |-> FALSE,
                            cellPairwiseDistances |-> d1,
                            P |-> P,
                            closest_vertex |-> closest_vertex,
                            dp_mst |-> T] :
                                T \in MinSpanningForests(d1, Cardinality(DOMAIN P))}

\* ------------------------------------------------------ select_root_cell
ErrStateNotSet == "ValueError: State has not yet been set"

ErrNoCells == "ValueError: no cells for State"

ErrNoValidRoot == "ValueError: no valid root cells for State"

ErrNoTree == "ValueError: no spanning tree found"

\* dictionary update
Put(f, k, v) == [x \in (DOMAIN f) \cup {k} |-> IF x = k THEN v ELSE f[x]]

\* a precedence test that looks at the wrong column
StateNotSet_pseudotime(obs) == "Pseudotime" \notin DOMAIN obs

StateNotSet(obs) == "cell_pseudo_state" \notin DOMAIN obs

\* an emptiness test that never fires
NoCandidates_never(cands) == Len(cands) < 0

NoCandidates(cands) == Len(cands) = 0

\* np.argmin / np.argmax: the first position of the extreme value
ArgMin(s) == SetMin({k \in 1..Len(s) : \A j \in 1..Len(s) : s[k] <= s[j]})

\* an argmax that returns the position of the least value
ArgMax_least(s) == ArgMin(s)

ArgMax(s) == SetMin({k \in 1..Len(s) : \A j \in 1..Len(s) : s[k] >= s[j]})

\* a choice of end that ignores reverse
RootEnd_first(diameter, rev) == diameter[1]

\* lines 228-231: the end of the diameter path that reverse selects
RootEnd(diameter, rev) == IF rev THEN diameter[Len(diameter)] ELSE diameter[1]

\* The outcomes of select_root_cell(adata, Z, root_state, reverse): the root
\* returned or the exception raised.
select_root_cell(obs, uns, Zc, rs, rev) ==
    IF rs # None
    THEN IF StateNotSet(obs) THEN {Raise(ErrStateNotSet)}
         ELSE IF "cell_pseudo_state" \notin DOMAIN obs THEN {Raise("KeyError")}
         ELSE
         LET cps   == obs["cell_pseudo_state"]
             cands == AscSeq({c \in DOMAIN cps : cps[c] = rs})
         IN  IF NoCandidates(cands) THEN {Raise(ErrNoCells)}
             ELSE
             LET m == Len(cands)
                 w == [a \in 0..(m - 1) |-> [b \in 0..(m - 1) |->
                          Abs(Zc[cands[a + 1]] - Zc[cands[b + 1]])]]
                 Pick(F) ==
                     LET diameter == get_diameter(F, m)
                     IN  IF Len(diameter) = 0 THEN Raise(ErrNoValidRoot)
                         ELSE
                         LET rcc  == [k \in 1..Len(diameter) |-> cands[diameter[k] + 1]]
                             pt   == [k \in 1..Len(rcc) |-> obs["Pseudotime"][rcc[k]]]
                             prev == uns["cell_order"]["root_cell"]
                             cell == IF prev # None /\ cps[prev] = rs
                                     THEN rcc[ArgMin(pt)]
                                     ELSE rcc[ArgMax(pt)]
                         IN  [raised |-> FALSE, numpy_int |-> TRUE,
                              root_cell |->
                                uns["cell_order"]["pr_graph_cell_proj_closest_vertex"][cell]]
             IN  {Pick(F) : F \in MinSpanningForests(w, m)}
    ELSE IF "minSpanningTree" \notin DOMAIN uns["cell_order"] THEN {Raise(ErrNoTree)}
         ELSE
         LET T        == uns["cell_order"]["minSpanningTree"]
             diameter == get_diameter(T, Cardinality(DOMAIN Zc))
         IN  {[raised |-> FALSE, numpy_int |-> FALSE,
               root_cell |-> RootEnd(diameter, rev)]}

\* ------------------------------------------------ vector field calculus
\* An array is a function on 0..len-1, a tensor of shape (a, b, c) is
\* indexed T[i][j][k]; a Python list is a sequence.  A fitted vector field
\* is kept by its dimension and the field it reconstructs, which fixes the
\* Jacobian at every point.
Len0(a) == Cardinality(DOMAIN a)

\* a[lo:hi] along the first axis
Slice(a, lo, hi) ==
    LET top == IF hi < Len0(a) THEN hi ELSE Len0(a)
    IN  [p \in 0..(top - lo - 1) |-> a[lo + p]]

\* T[:, :, lo:hi]
SliceLast(T, lo, hi) == [r \in DOMAIN T |-> [c \in DOMAIN T[r] |-> Slice(T[r][c], lo, hi)]]

RECURSIVE SumTo(_, _)
SumTo(f, k) == IF k < 0 THEN 0 ELSE f[k] + SumTo(f, k - 1)

\* the sum of the entries of an array
Sum(f) == SumTo(f, Len0(f) - 1)

\* a chunk size rounded down
CeilDiv_floor(n, cores) == n \div cores

\* int(np.ceil(n / cores))
CeilDiv(n, cores) == (n + cores - 1) \div cores

\* list(range(0, n, step)) for step > 0
RangeStarts(n, step) == [j \in 1..CeilDiv(n, step) |-> (j - 1) * step]

\* the Jacobian of the fitted field at the point x (x.ndim == 1): the field
\* f(x) = x, the rotation f(x) = (-x1, x0, 0, ...), or f(x)_k = x_k^2
JacobianAt(x, vf_dict) ==
    [r \in 0..(vf_dict.d - 1) |-> [c \in 0..(vf_dict.d - 1) |->
        CASE vf_dict.field = "source"   -> IF r = c THEN 1 ELSE 0
          [] vf_dict.field = "rotation" -> IF r = 1 /\ c = 0 THEN 1
                                           ELSE IF r = 0 /\ c = 1 THEN -1 ELSE 0
          [] OTHER                      -> IF r = c THEN 2 * x[r] ELSE 0]]

\* Jacobian_rkhs_gaussian on an n x d array: the d x d x n tensor filled
\* point by point
Jacobian_rkhs_gaussian(x, vf_dict) ==
    [r \in 0..(vf_dict.d - 1) |-> [c \in 0..(vf_dict.d - 1) |->
        [p \in DOMAIN x |-> JacobianAt(x[p], vf_dict)[r][c]]]]

\* np.transpose(r, axes=(2, 0, 1)): result[i, j, k] = r[j, k, i]
Transpose201(r) ==
    [i \in DOMAIN r[0][0] |-> [j \in DOMAIN r |-> [k \in DOMAIN r[0] |-> r[j][k][i]]]]

\* np.transpose(B, axes=(1, 2, 0)): result[i, j, k] = B[k, i, j]
Transpose120(B) ==
    [i \in DOMAIN B[0] |-> [j \in DOMAIN B[0][0] |-> [k \in DOMAIN B |-> B[k][i][j]]]]

\* np.vstack of a list of arrays: concatenation along the first axis
RECURSIVE vstack(_)
vstack(list) ==
    IF Len(list) = 1 THEN list[1]
    ELSE LET a == list[1]
             b == vstack(Tail(list))
         IN  [p \in 0..(Len0(a) + Len0(b) - 1) |->
                 IF p < Len0(a) THEN a[p] ELSE b[p - Len0(a)]]

\* a gather that stacks the chunks last to first
Gather_reversed(pool) ==
    Transpose120(vstack([k \in 1..Len(pool) |-> Transpose201(pool[Len(pool) + 1 - k])]))

\* utils_vecCalc.py 221-222, vector_calculus.py 111-112
Gather(pool) == Transpose120(vstack([k \in 1..Len(pool) |-> Transpose201(pool[k])]))

\* ret[:, :, i] = Qi @ Js[:, :, i] @ Qj.T for every i
transform_jacobian(Js, Qi, Qj) ==
    [a \in DOMAIN Qi |-> [b \in DOMAIN Qj |-> [p \in DOMAIN Js[0][0] |->
        Sum([r \in DOMAIN Js |->
            Sum([c \in DOMAIN Js |-> Qi[a][r] * Js[r][c][p] * Qj[b][c]])])]]]

\* np.trace of a d x d x k tensor: the vector of the k traces
trace(J) == [p \in DOMAIN J[0][0] |-> Sum([r \in DOMAIN J |-> J[r][r][p]])]

ErrKernel == "ValueError: the kernel can only be one of full, df_kernel, cf_kernel"

\* lines 37-49: the requests that do not raise
VariantAccepted(vf_dict, kernel) ==
    vf_dict.has_div_cur_free_kernels => kernel \in {"full", "df_kernel", "cf_kernel"}

\* vector_field_function: the kernel matrix that is multiplied with the
\* coefficients and the coefficient columns used, or the exception
vector_field_function(vf_dict, dim, kernel) ==
    IF ~VariantAccepted(vf_dict, kernel) THEN Raise(ErrKernel)
    ELSE IF vf_dict.has_div_cur_free_kernels
    THEN [raised |-> FALSE,
          K |-> CASE kernel = "full" -> "G"
                  [] kernel = "df_kernel" -> "df_kernel"
                  [] OTHER -> "cf_kernel",
          C_columns |-> None]
    ELSE [raised |-> FALSE, K |-> "con_K", C_columns |-> dim]

ErrDimension == "Exception: curl is only defined in 2/3 dimension."

\* _curl on a d x d Jacobian
curl3d(jac) ==
    IF Len0(jac) < 3 THEN Raise("IndexError")
    ELSE [raised |-> FALSE,
          value |-> <<jac[2][1] - jac[1][2], jac[0][2] - jac[2][0], jac[1][0] - jac[0][1]>>,
          shape |-> <<3>>]

curl2d(jac) ==
    IF Len0(jac) < 2 THEN Raise("IndexError")
    ELSE [raised |-> FALSE, value |-> jac[1][0] - jac[0][1], shape |-> << >>]

\* numpy broadcasting of a value of shape vs into a slot of shape ts
Broadcasts(vs, ts) ==
    /\ Len(vs) <= Len(ts)
    /\ \A k \in 1..Len(vs) :
          vs[k] = 1 \/ vs[k] = ts[Len(ts) - Len(vs) + k]

\* ------------------------------------------------------------ state
VARIABLES
    pc,             \* position in the function being run
    dp,             \* pairwise distances of the principal points
    mst,            \* the spanning tree of the principal points
    root_cell,      \* the root vertex
    orders,         \* DFS visit order
    pres,           \* DFS parent of each visited vertex
    i,              \* loop index of get_order_from_DDRTree
    curr_state,     \* the state counter
    pseudotimes,    \* pseudotime per vertex
    ordering_dict,  \* the columns collected by the loop
    ordering_df,    \* the returned table
    Z,              \* reduced coordinates of the cells (DDRTree)
    Y,              \* coordinates of the principal points (DDRTree)
    stree,          \* the principal tree (DDRTree)
    root_state,     \* argument of order_cells
    reverse,        \* argument of order_cells
    adata_obs,      \* adata.obs: the per-cell columns that exist
    adata_uns,      \* adata.uns: the run-scoped metadata that exists
    obs_assigned,   \* per stored column or field, the call that assigned it last
    root_numpy,     \* root_cell is a numpy integer, not a Python int
    cc_ordering,    \* the initial ordering
    cellPairwiseDistances,              \* project2MST: refined distances
    pr_graph_cell_proj_dist,            \* project2MST: projected points
    pr_graph_cell_proj_closest_vertex,  \* project2MST: closest vertex per cell
    pr_graph_cell_proj_tree,            \* project2MST: refined spanning tree
    cc_ordering_new_pseudotime,         \* the final ordering
    err,            \* the exception that ended the last call, if any
    runs,           \* order_cells calls made on this adata
    X,              \* the coordinates of the cells, one row per cell
    vf_dict,        \* the fitted vector field
    args,           \* the function called and its other arguments
    Js,             \* subset_jacobian_transformation: the Jacobians of the cells
    chunks,         \* the list xx or JJ handed to the pool
    pool_ret,       \* the list the pool returns, filled as the workers finish
    ret,            \* the value returned
    div,            \* compute_divergence: the vector being filled
    curl,           \* compute_curl: the array being filled
    lo,             \* the loop index i of compute_divergence and compute_curl
    jac_calls       \* evaluations of f_jac made by the running call

orderVars == <<orders, pres, i, curr_state, pseudotimes, ordering_dict, ordering_df>>

fitVars == <<Z, Y, stree>>

argVars == <<root_state, reverse>>

projVars == <<cellPairwiseDistances, pr_graph_cell_proj_dist,
              pr_graph_cell_proj_closest_vertex, pr_graph_cell_proj_tree>>

obsVars == <<adata_obs, obs_assigned>>

cellsVars == <<Z, Y, stree, root_state, reverse, obsVars, adata_uns, root_numpy,
               cc_ordering, cellPairwiseDistances, pr_graph_cell_proj_dist,
               pr_graph_cell_proj_closest_vertex, pr_graph_cell_proj_tree,
               cc_ordering_new_pseudotime, err, runs>>

vecVars == <<X, vf_dict, args, Js, chunks, pool_ret, ret, div, curl, lo, jac_calls>>

pseudotimeVars == <<dp, mst, root_cell, orderVars, Z, Y, stree, root_state, reverse,
                    obsVars, adata_uns, root_numpy, cc_ordering, projVars,
                    cc_ordering_new_pseudotime, runs>>

vars == <<pc, dp, mst, root_cell, orderVars, cellsVars, vecVars>>

NoOrderRun ==
    /\ orders = << >>
    /\ pres = << >>
    /\ i = 0
    /\ curr_state = 0
    /\ pseudotimes = << >>
    /\ ordering_dict = OrderStart(0).ordering_dict
    /\ ordering_df = << >>

NoLocals ==
    /\ root_numpy = FALSE
    /\ cc_ordering = << >>
    /\ cellPairwiseDistances = << >>
    /\ pr_graph_cell_proj_dist = << >>
    /\ pr_graph_cell_proj_closest_vertex = << >>
    /\ pr_graph_cell_proj_tree = {}
    /\ cc_ordering_new_pseudotime = << >>

ResetLocals ==
    /\ root_numpy' = FALSE
    /\ cc_ordering' = << >>
    /\ cellPairwiseDistances' = << >>
    /\ pr_graph_cell_proj_dist' = << >>
    /\ pr_graph_cell_proj_closest_vertex' = << >>
    /\ pr_graph_cell_proj_tree' = {}
    /\ cc_ordering_new_pseudotime' = << >>

NoVecRun ==
    /\ X = << >>
    /\ vf_dict = << >>
    /\ args = << >>
    /\ Js = << >>
    /\ chunks = << >>
    /\ pool_ret = << >>
    /\ ret = << >>
    /\ div = << >>
    /\ curl = << >>
    /\ lo = 0
    /\ jac_calls = 0

NoCellsRun ==
    /\ Z = << >>
    /\ Y = << >>
    /\ stree = {}
    /\ root_state = None
    /\ reverse = FALSE
    /\ adata_obs = << >>
    /\ obs_assigned = << >>
    /\ adata_uns = << >>
    /\ NoLocals
    /\ err = ""
    /\ runs = 0
    /\ NoVecRun

\* ------------------------ get_order_from_DDRTree, one loop step at a time
\* The arguments: a tree on 1..MaxVertices vertices, the distances of its
\* principal points, any vertex as root.
Init ==
    /\ \E n \in 1..MaxVertices :
         \E Yc \in [0..(n - 1) -> 0..MaxCoord] :
           /\ dp = pdist(Yc)
           /\ mst \in Trees(n)
           /\ root_cell \in 0..(n - 1)
    /\ pc = "order_start"
    /\ NoOrderRun
    /\ NoCellsRun

NVert == Cardinality(DOMAIN dp)

\* lines 63-73
OrderEnter ==
    /\ pc = "order_start"
    /\ LET t  == dfs(mst, root_cell)
           st == OrderStart(NVert)
       IN  /\ orders' = t.orders
           /\ pres' = t.pres
           /\ curr_state' = st.curr_state
           /\ pseudotimes' = st.pseudotimes
           /\ ordering_dict' = st.ordering_dict
    /\ i' = 0
    /\ pc' = "order_loop"
    /\ UNCHANGED <<dp, mst, root_cell, ordering_df, cellsVars, vecVars>>

OrderStep ==
    LET st == OrderBody(dp, mst, orders, pres,
                        [curr_state |-> curr_state, pseudotimes |-> pseudotimes,
                         ordering_dict |-> ordering_dict], i)
    IN  /\ curr_state' = st.curr_state
        /\ pseudotimes' = st.pseudotimes
        /\ ordering_dict' = st.ordering_dict
        /\ i' = i + 1
        /\ UNCHANGED <<pc, dp, mst, root_cell, orders, pres, ordering_df, cellsVars, vecVars>>

\* lines 75-94, the branch taken when pres[i] > 0
OrderVisitWithParent ==
    /\ pc = "order_loop"
    /\ i < Len(orders)
    /\ HasParent(pres[i + 1])
    /\ OrderStep

\* lines 75-94, the else branch
OrderVisitAsRoot ==
    /\ pc = "order_loop"
    /\ i < Len(orders)
    /\ ~HasParent(pres[i + 1])
    /\ OrderStep

\* lines 96-99
OrderReturn ==
    /\ pc = "order_loop"
    /\ i >= Len(orders)
    /\ ordering_df' = OrderFrame(ordering_dict)
    /\ pc' = "order_done"
    /\ UNCHANGED <<dp, mst, root_cell, orders, pres, i, curr_state, pseudotimes,
                   ordering_dict, cellsVars, vecVars>>

Next == OrderEnter \/ OrderVisitWithParent \/ OrderVisitAsRoot \/ OrderReturn

Spec == Init /\ [][Next]_vars

\* ------------------------------------------- order_cells, phase by phase
\* A data container of 2..MaxCells cells on which order_cells has not run.
\* With at most 100 cells _cal_ncenter gives None and DDRTree returns one
\* principal point per cell; its result for this data is fixed here.  stree
\* is a weighted adjacency matrix, so the two ends of an edge are distinct
\* points.
InitCells ==
    /\ \E n \in 2..MaxCells :
         /\ Z \in [0..(n - 1) -> 0..MaxCoord]
         /\ Y \in [0..(n - 1) -> 0..MaxCoord]
         /\ stree \in Trees(n)
         /\ \A e \in stree : Y[SetMin(e)] # Y[SetMax(e)]
    /\ pc = "idle"
    /\ dp = << >>
    /\ mst = {}
    /\ root_cell = None
    /\ root_state = None
    /\ reverse = FALSE
    /\ adata_obs = << >>
    /\ obs_assigned = << >>
    /\ adata_uns = << >>
    /\ NoLocals
    /\ err = ""
    /\ runs = 0
    /\ NoVecRun
    /\ NoOrderRun

NCells == Cardinality(DOMAIN Z)

SetCellOrder(uns, k, v) == Put(uns, "cell_order", Put(uns["cell_order"], k, v))

\* lines 253-280: the call, the fit, and the first writes to adata.uns
OrderCellsFit ==
    /\ pc \in {"idle", "returned", "raised"}
    /\ runs < MaxRuns
    /\ runs' = runs + 1
    /\ root_state' \in {None} \cup 0..MaxRootState
    /\ reverse' \in BOOLEAN
    /\ LET uns0 == IF "cell_order" \notin DOMAIN adata_uns
                   THEN Put(adata_uns, "cell_order", Put(<< >>, "root_cell", None))
                   ELSE adata_uns
           uns1 == SetCellOrder(uns0, "cell_order_method", "DDRTree")
       IN  /\ dp' = pdist(Y)
           /\ mst' = stree
           /\ adata_uns' = SetCellOrder(uns1, "minSpanningTree", stree)
    /\ root_cell' = None
    /\ ResetLocals
    /\ err' = ""
    /\ pc' = "select_root"
    /\ UNCHANGED <<fitVars, obsVars, orderVars, vecVars>>

\* line 282, select_root_cell returns
SelectRootReturns ==
    /\ pc = "select_root"
    /\ \E r \in select_root_cell(adata_obs, adata_uns, Z, root_state, reverse) :
         /\ ~r.raised
         /\ root_cell' = r.root_cell
         /\ root_numpy' = r.numpy_int
    /\ pc' = "initial_order"
    /\ UNCHANGED <<dp, mst, fitVars, argVars, obsVars, adata_uns, cc_ordering, projVars,
                   cc_ordering_new_pseudotime, err, runs, orderVars, vecVars>>

\* line 282, select_root_cell raises
SelectRootRaises ==
    /\ pc = "select_root"
    /\ \E r \in select_root_cell(adata_obs, adata_uns, Z, root_state, reverse) :
         /\ r.raised
         /\ err' = r.err
    /\ pc' = "raised"
    /\ UNCHANGED <<dp, mst, root_cell, fitVars, argVars, obsVars, adata_uns, root_numpy,
                   cc_ordering, projVars, cc_ordering_new_pseudotime, runs, orderVars, vecVars>>

\* lines 283-286
InitialOrder ==
    /\ pc = "initial_order"
    /\ LET df == get_order_from_DDRTree(dp, mst, root_cell)
       IN  /\ cc_ordering' = df
           /\ adata_obs' = Put(adata_obs, "Pseudotime", Column(df, "pseudo_time"))
           /\ obs_assigned' = Put(obs_assigned, "Pseudotime", runs)
    /\ adata_uns' = SetCellOrder(adata_uns, "root_cell", root_cell)
    /\ pc' = "reproject"
    /\ UNCHANGED <<dp, mst, root_cell, fitVars, argVars, root_numpy, projVars,
                   cc_ordering_new_pseudotime, err, runs, orderVars, vecVars>>

\* lines 288-292, project2MST returns
ReprojectReturns ==
    /\ pc = "reproject"
    /\ \E r \in project2MST(mst, Z, Y) :
         /\ ~r.raised
         /\ cellPairwiseDistances' = r.cellPairwiseDistances
         /\ pr_graph_cell_proj_dist' = r.P
         /\ pr_graph_cell_proj_closest_vertex' = r.closest_vertex
         /\ pr_graph_cell_proj_tree' = r.dp_mst
         /\ adata_uns' = SetCellOrder(SetCellOrder(adata_uns, "minSpanningTree", r.dp_mst),
                                      "pr_graph_cell_proj_closest_vertex", r.closest_vertex)
    /\ pc' = "root_refinement"
    /\ UNCHANGED <<dp, mst, root_cell, fitVars, argVars, obsVars, root_numpy, cc_ordering,
                   cc_ordering_new_pseudotime, err, runs, orderVars, vecVars>>

\* lines 288-289, project2MST raises
ReprojectRaises ==
    /\ pc = "reproject"
    /\ \E r \in project2MST(mst, Z, Y) :
         /\ r.raised
         /\ err' = r.err
    /\ pc' = "raised"
    /\ UNCHANGED <<dp, mst, root_cell, fitVars, argVars, obsVars, adata_uns, root_numpy,
                   cc_ordering, projVars, cc_ordering_new_pseudotime, runs, orderVars, vecVars>>

\* line 294
CellsMappedToGraphRoot ==
    {c \in DOMAIN pr_graph_cell_proj_closest_vertex :
        pr_graph_cell_proj_closest_vertex[c] = root_cell}

\* lines 299-300: the cells mapped to the root whose index is among the tips
\* of the old tree
TipsAmongMapped == CellsMappedToGraphRoot \cap TipLeaves(mst, NCells)

np_isnan(x) == x = NaN

\* a refinement that takes the first cell mapped to the root, tip or not
RefinedRoot_any ==
    IF CellsMappedToGraphRoot = {} THEN Raise("TypeError")
    ELSE [raised |-> FALSE, root_cell |-> SetMin(CellsMappedToGraphRoot)]

\* The outcome of lines 294-300: the refined root or the exception.  With no
\* cell mapped to the root the root itself is indexed (line 297): a Python int
\* cannot be indexed, a numpy integer gives a one-element or an empty array.
RefinedRoot ==
    IF CellsMappedToGraphRoot = {}
    THEN IF ~root_numpy THEN Raise("TypeError")
         ELSE IF root_cell \in TipLeaves(mst, NCells)
              THEN [raised |-> FALSE, root_cell |-> root_cell]
              ELSE Raise("IndexError")
    ELSE IF TipsAmongMapped = {} THEN Raise("IndexError")
         ELSE [raised |-> FALSE, root_cell |-> SetMin(TipsAmongMapped)]

\* lines 294-305, a root is found
RootRefinementReturns ==
    /\ pc = "root_refinement"
    /\ ~RefinedRoot.raised
    /\ IF np_isnan(RefinedRoot.root_cell)
       THEN \E r \in select_root_cell(adata_obs, adata_uns, Z, root_state, reverse) :
              /\ ~r.raised
              /\ root_cell' = r.root_cell
              /\ root_numpy' = r.numpy_int
       ELSE /\ root_cell' = RefinedRoot.root_cell
            /\ root_numpy' = TRUE
    /\ adata_uns' = SetCellOrder(adata_uns, "root_cell", root_cell')
    /\ pc' = "final_order"
    /\ UNCHANGED <<dp, mst, fitVars, argVars, obsVars, cc_ordering, projVars,
                   cc_ordering_new_pseudotime, err, runs, orderVars, vecVars>>

\* line 300 raises
RootRefinementRaises ==
    /\ pc = "root_refinement"
    /\ RefinedRoot.raised
    /\ err' = RefinedRoot.err
    /\ pc' = "raised"
    /\ UNCHANGED <<dp, mst, root_cell, fitVars, argVars, obsVars, adata_uns, root_numpy,
                   cc_ordering, projVars, cc_ordering_new_pseudotime, runs, orderVars, vecVars>>

\* vertices of degree 2 counted as branch points
BranchPoints_low(T, n) == {v \in 0..(n - 1) : degree(T, v) > 1}

\* lines 314-315: vs.select(_degree_gt=2)
BranchPoints(T, n) == {v \in 0..(n - 1) : degree(T, v) > 2}

\* lines 307-316
FinalOrder ==
    /\ pc = "final_order"
    /\ LET df   == get_order_from_DDRTree(dp, mst, root_cell)
           obs1 == Put(adata_obs, "Pseudotime", Column(df, "pseudo_time"))
           closest_vertex == pr_graph_cell_proj_closest_vertex
       IN  /\ cc_ordering_new_pseudotime' = df
           /\ adata_obs' =
                IF root_state = None
                THEN Put(obs1, "cell_pseudo_state",
                         [c \in DOMAIN closest_vertex |->
                             Loc(cc_ordering, closest_vertex[c], "cell_pseudo_state")])
                ELSE obs1
           /\ obs_assigned' =
                IF root_state = None
                THEN Put(Put(obs_assigned, "Pseudotime", runs), "cell_pseudo_state", runs)
                ELSE Put(obs_assigned, "Pseudotime", runs)
    /\ adata_uns' = SetCellOrder(adata_uns, "branch_points",
                                 BranchPoints(pr_graph_cell_proj_tree, NCells))
    /\ pc' = "returned"
    /\ UNCHANGED <<dp, mst, root_cell, fitVars, argVars, root_numpy, cc_ordering, projVars,
                   err, runs, orderVars, vecVars>>

NextCells ==
    \/ OrderCellsFit
    \/ SelectRootReturns
    \/ SelectRootRaises
    \/ InitialOrder
    \/ ReprojectReturns
    \/ ReprojectRaises
    \/ RootRefinementReturns
    \/ RootRefinementRaises
    \/ FinalOrder

SpecCells == InitCells /\ [][NextCells]_vars

\* ------------------------------------ order_cells on a branching tree
\* the trees on 0..n-1 in which one centre is joined to every other vertex
Stars(n) == {{{c, v} : v \in (0..(n - 1)) \ {c}} : c \in 0..(n - 1)}

\* coordinates of BranchCells points numbered along the axis
Ascending ==
    {z \in [0..(BranchCells - 1) -> 0..MaxCoord] :
        \A c \in 1..(BranchCells - 1) : z[c - 1] <= z[c]}

\* A data container of BranchCells cells whose principal tree has a branch
\* point, on which order_cells has not run; the cells and the principal
\* points are numbered along the axis.
InitBranch ==
    /\ Z \in Ascending
    /\ Y \in Ascending
    /\ stree \in Stars(BranchCells)
    /\ \A e \in stree : Y[SetMin(e)] # Y[SetMax(e)]
    /\ pc = "idle"
    /\ dp = << >>
    /\ mst = {}
    /\ root_cell = None
    /\ root_state = None
    /\ reverse = FALSE
    /\ adata_obs = << >>
    /\ obs_assigned = << >>
    /\ adata_uns = << >>
    /\ NoLocals
    /\ err = ""
    /\ runs = 0
    /\ NoVecRun
    /\ NoOrderRun

SpecBranch == InitBranch /\ [][NextCells]_vars

\* ------------------------------------ select_root_cell with a root_state
\* The state at line 282 of a call with a root_state on a container that an
\* earlier call has ordered from the root prev: Pseudotime is the ordering
\* from prev (lines 307-308), the closest vertices are those of the cells
\* (line 292), and cell_pseudo_state is any labelling of the cells.
InitSelect ==
    /\ Z \in [0..(MaxCells - 1) -> 0..MaxCoord]
    /\ Y \in [0..(MaxCells - 1) -> 0..MaxCoord]
    /\ stree \in Trees(MaxCells)
    /\ \A e \in stree : Y[SetMin(e)] # Y[SetMax(e)]
    /\ root_state \in 0..MaxRootState
    /\ reverse \in BOOLEAN
    /\ \E prev \in 0..(MaxCells - 1) :
         \E cps \in [0..(MaxCells - 1) -> 0..MaxRootState] :
           /\ adata_obs =
                [cell_pseudo_state |-> cps,
                 Pseudotime |-> Column(get_order_from_DDRTree(pdist(Y), stree, prev),
                                       "pseudo_time")]
           /\ adata_uns =
                [cell_order |->
                    [root_cell |-> prev,
                     cell_order_method |-> "DDRTree",
                     minSpanningTree |-> stree,
                     pr_graph_cell_proj_closest_vertex |->
                         find_cell_proj_closest_vertex(Z, Y),
                     branch_points |-> {}]]
    /\ obs_assigned = [cell_pseudo_state |-> 1, Pseudotime |-> 1]
    /\ runs = 2
    /\ pc = "select_root"
    /\ dp = pdist(Y)
    /\ mst = stree
    /\ root_cell = None
    /\ NoLocals
    /\ err = ""
    /\ NoOrderRun
    /\ NoVecRun

NextSelect == SelectRootReturns \/ SelectRootRaises

SpecSelect == InitSelect /\ [][NextSelect]_vars

\* ------------------------------------------- vector calculus, call by call
Fields == {"source", "rotation", "quadratic"}

Kernels == {"full", "df_kernel", "cf_kernel", "gaussian"}

\* the slot of the pool's result list whose worker has not finished
Pending == << >>

\* the rows of a PCA loading matrix for two genes
Loadings(d) ==
    LET g0 == [k \in 0..(d - 1) |-> IF k = 0 THEN 1 ELSE 0]
        g1 == [k \in 0..(d - 1) |-> 1]
    IN  {[g \in 0..0 |-> g1], [g \in 0..1 |-> IF g = 0 THEN g0 ELSE g1]}

\* A container of 1..MaxPoints cells with a fitted vector field of dimension
\* 1..MaxDim, the cells on the diagonal in increasing or decreasing order;
\* no function has been called.
InitVec ==
    /\ vf_dict \in [field : Fields, d : 1..MaxDim, has_div_cur_free_kernels : BOOLEAN]
    /\ \E n \in 1..MaxPoints : \E up \in BOOLEAN :
          X = [p \in 0..(n - 1) |->
                  [k \in 0..(vf_dict.d - 1) |-> IF up THEN p ELSE n - 1 - p]]
    /\ pc = "idle"
    /\ err = ""
    /\ args = << >>
    /\ Js = << >>
    /\ chunks = << >>
    /\ pool_ret = << >>
    /\ ret = << >>
    /\ div = << >>
    /\ curl = << >>
    /\ lo = 0
    /\ jac_calls = 0
    /\ dp = << >>
    /\ mst = {}
    /\ root_cell = None
    /\ NoOrderRun
    /\ Z = << >>
    /\ Y = << >>
    /\ stree = {}
    /\ root_state = None
    /\ reverse = FALSE
    /\ adata_obs = << >>
    /\ obs_assigned = << >>
    /\ adata_uns = << >>
    /\ NoLocals
    /\ runs = 0

\* utils_vecCalc.py 23-55, the call returns
VectorFieldReturns ==
    /\ pc = "idle"
    /\ \E kernel \in Kernels : \E dim \in {None, 0} :
          LET r == vector_field_function(vf_dict, dim, kernel)
          IN  /\ ~r.raised
              /\ args' = [fn |-> "vector_field_function", kernel |-> kernel, dim |-> dim]
              /\ ret' = r
    /\ pc' = "done"
    /\ UNCHANGED <<err, X, vf_dict, Js, chunks, pool_ret, div, curl, lo, jac_calls,
                   pseudotimeVars>>

\* utils_vecCalc.py 45, the call raises
VectorFieldRaises ==
    /\ pc = "idle"
    /\ \E kernel \in Kernels : \E dim \in {None, 0} :
          LET r == vector_field_function(vf_dict, dim, kernel)
          IN  /\ r.raised
              /\ args' = [fn |-> "vector_field_function", kernel |-> kernel, dim |-> dim]
              /\ err' = r.err
    /\ pc' = "raised"
    /\ UNCHANGED <<X, vf_dict, Js, chunks, pool_ret, ret, div, curl, lo, jac_calls,
                   pseudotimeVars>>

\* the list of chunks a[i:i+n_j_per_core] for i in range(0, n, n_j_per_core),
\* cut along the first axis of a or, for a tensor, along its last axis
Chunked(a, n, cores, tensor) ==
    LET n_j_per_core == CeilDiv(n, cores)
        starts       == RangeStarts(n, n_j_per_core)
    IN  [j \in 1..Len(starts) |->
            IF tensor THEN SliceLast(a, starts[j], starts[j] + n_j_per_core)
            ELSE Slice(a, starts[j], starts[j] + n_j_per_core)]

\* the pool has been handed the chunks and no worker has finished
PoolStart(list) ==
    /\ chunks' = list
    /\ pool_ret' = [j \in 1..Len(list) |-> Pending]

\* utils_vecCalc.py 210-220: range() rejects a step of 0
JacParFanOut ==
    /\ pc = "idle"
    /\ \E cores \in 1..MaxCores :
          /\ args' = [fn |-> "Jacobian_rkhs_gaussian_parallel", cores |-> cores]
          /\ IF CeilDiv(Len0(X), cores) = 0
             THEN /\ pc' = "raised"
                  /\ err' = "ValueError: range() arg 3 must not be zero"
                  /\ UNCHANGED <<chunks, pool_ret>>
             ELSE /\ pc' = "jac_pool"
                  /\ err' = err
                  /\ PoolStart(Chunked(X, Len0(X), cores, FALSE))
    /\ UNCHANGED <<X, vf_dict, Js, ret, div, curl, lo, jac_calls, pseudotimeVars>>

\* utils_vecCalc.py 219-220: a worker of the pool finishes its chunk
JacWorker ==
    /\ pc = "jac_pool"
    /\ \E j \in 1..Len(chunks) :
          /\ pool_ret[j] = Pending
          /\ pool_ret' = [pool_ret EXCEPT ![j] = Jacobian_rkhs_gaussian(chunks[j], vf_dict)]
    /\ jac_calls' = jac_calls + 1
    /\ UNCHANGED <<pc, err, X, vf_dict, args, Js, chunks, ret, div, curl, lo, pseudotimeVars>>

\* utils_vecCalc.py 221-223: starmap has returned the list
JacParGather ==
    /\ pc = "jac_pool"
    /\ \A j \in 1..Len(chunks) : pool_ret[j] # Pending
    /\ ret' = Gather(pool_ret)
    /\ pc' = "done"
    /\ UNCHANGED <<err, X, vf_dict, args, Js, chunks, pool_ret, div, curl, lo, jac_calls,
                   pseudotimeVars>>

\* vector_calculus.py 83-95, 113-116: cores == 1
SubsetSequential ==
    /\ pc = "idle"
    /\ \E Qi \in Loadings(vf_dict.d) : \E Qj \in Loadings(vf_dict.d) :
          /\ args' = [fn |-> "subset_jacobian_transformation", cores |-> 1,
                      Qi |-> Qi, Qj |-> Qj]
          /\ Js' = Jacobian_rkhs_gaussian(X, vf_dict)
          /\ ret' = transform_jacobian(Js', Qi, Qj)
    /\ jac_calls' = jac_calls + 1
    /\ pc' = "done"
    /\ UNCHANGED <<err, X, vf_dict, chunks, pool_ret, div, curl, lo, pseudotimeVars>>

\* vector_calculus.py 83-89, 103-110: cores > 1
SubsetFanOut ==
    /\ pc = "idle"
    /\ \E cores \in 2..MaxCores :
        \E Qi \in Loadings(vf_dict.d) : \E Qj \in Loadings(vf_dict.d) :
          /\ args' = [fn |-> "subset_jacobian_transformation", cores |-> cores,
                      Qi |-> Qi, Qj |-> Qj]
          /\ Js' = Jacobian_rkhs_gaussian(X, vf_dict)
          /\ IF CeilDiv(Len0(X), cores) = 0
             THEN /\ pc' = "raised"
                  /\ err' = "ValueError: range() arg 3 must not be zero"
                  /\ UNCHANGED <<chunks, pool_ret>>
             ELSE /\ pc' = "subset_pool"
                  /\ err' = err
                  /\ PoolStart(Chunked(Js', Len0(X), cores, TRUE))
    /\ jac_calls' = jac_calls + 1
    /\ UNCHANGED <<X, vf_dict, ret, div, curl, lo, pseudotimeVars>>

\* vector_calculus.py 108-110: a worker of the pool finishes its chunk
TransformWorker ==
    /\ pc = "subset_pool"
    /\ \E j \in 1..Len(chunks) :
          /\ pool_ret[j] = Pending
          /\ pool_ret' = [pool_ret EXCEPT ![j] = transform_jacobian(chunks[j], args.Qi, args.Qj)]
    /\ UNCHANGED <<pc, err, X, vf_dict, args, Js, chunks, ret, div, curl, lo, jac_calls,
                   pseudotimeVars>>

\* vector_calculus.py 111-116: starmap has returned the list
SubsetGather ==
    /\ pc = "subset_pool"
    /\ \A j \in 1..Len(chunks) : pool_ret[j] # Pending
    /\ ret' = Gather(pool_ret)
    /\ pc' = "done"
    /\ UNCHANGED <<err, X, vf_dict, args, Js, chunks, pool_ret, div, curl, lo, jac_calls,
                   pseudotimeVars>>

\* the step of the loop of compute_divergence
BatchStep(a) == IF a.vectorize_size = None THEN Len0(a.X) ELSE a.vectorize_size

\* The arguments of a call of compute_divergence: a batch size or None, and
\* the cells whose divergence was not taken from stored Jacobians
\* (vector_calculus.py 407): all of them or none.
DivArgs ==
    {[fn |-> "compute_divergence", X |-> x, vectorize_size |-> size] :
        x \in {X, << >>}, size \in (1..MaxBatch) \cup {None}}

\* utils_vecCalc.py 269-273
DivEnter ==
    /\ pc = "idle"
    /\ \E a \in DivArgs :
          /\ BatchStep(a) # 0
          /\ args' = a
          /\ div' = [p \in DOMAIN a.X |-> 0]
    /\ lo' = 0
    /\ pc' = "div_loop"
    /\ UNCHANGED <<err, X, vf_dict, Js, chunks, pool_ret, ret, curl, jac_calls,
                   pseudotimeVars>>

\* utils_vecCalc.py 273: range() rejects a step of 0
DivRaises ==
    /\ pc = "idle"
    /\ \E a \in DivArgs :
          /\ BatchStep(a) = 0
          /\ args' = a
    /\ err' = "ValueError: range() arg 3 must not be zero"
    /\ pc' = "raised"
    /\ UNCHANGED <<X, vf_dict, Js, chunks, pool_ret, ret, div, curl, lo, jac_calls,
                   pseudotimeVars>>

\* utils_vecCalc.py 273-275, one batch
DivBatch ==
    /\ pc = "div_loop"
    /\ lo < Len0(args.X)
    /\ LET J  == Jacobian_rkhs_gaussian(Slice(args.X, lo, lo + BatchStep(args)), vf_dict)
           tr == trace(J)
       IN  div' = [p \in DOMAIN div |->
                      IF lo <= p /\ p < lo + BatchStep(args) THEN tr[p - lo] ELSE div[p]]
    /\ lo' = lo + BatchStep(args)
    /\ jac_calls' = jac_calls + 1
    /\ UNCHANGED <<pc, err, X, vf_dict, args, Js, chunks, pool_ret, ret, curl, pseudotimeVars>>

\* utils_vecCalc.py 276
DivReturn ==
    /\ pc = "div_loop"
    /\ lo >= Len0(args.X)
    /\ ret' = div
    /\ pc' = "done"
    /\ UNCHANGED <<err, X, vf_dict, args, Js, chunks, pool_ret, div, curl, lo, jac_calls,
                   pseudotimeVars>>

\* X.shape[1]
Columns(x) == Len0(x[0])

\* utils_vecCalc.py 388-389
CurlRaises ==
    /\ pc = "idle"
    /\ Columns(X) > 3
    /\ args' = [fn |-> "compute_curl"]
    /\ err' = ErrDimension
    /\ pc' = "raised"
    /\ UNCHANGED <<X, vf_dict, Js, chunks, pool_ret, ret, div, curl, lo, jac_calls,
                   pseudotimeVars>>

\* utils_vecCalc.py 391-398: the array to fill, a scalar or a 2 x 2 block
\* per cell
CurlEnter ==
    /\ pc = "idle"
    /\ ~(Columns(X) > 3)
    /\ args' = [fn |-> "compute_curl"]
    /\ curl' = IF Columns(X) = 2
               THEN [p \in DOMAIN X |-> 0]
               ELSE [p \in DOMAIN X |-> [r \in 0..1 |-> [c \in 0..1 |-> 0]]]
    /\ lo' = 0
    /\ pc' = "curl_loop"
    /\ UNCHANGED <<err, X, vf_dict, Js, chunks, pool_ret, ret, div, jac_calls,
                   pseudotimeVars>>

\* the value f computes for cell lo and the shape of the slot curl[lo]
CurlValue ==
    LET J == JacobianAt(X[lo], vf_dict)
    IN  IF Columns(X) = 2 THEN curl2d(J) ELSE curl3d(J)

CurlSlot == IF Columns(X) = 2 THEN << >> ELSE <<2, 2>>

\* utils_vecCalc.py 400-402, one cell
CurlPoint ==
    /\ pc = "curl_loop"
    /\ lo < Len0(X)
    /\ ~CurlValue.raised
    /\ Broadcasts(CurlValue.shape, CurlSlot)
    /\ curl' = [curl EXCEPT ![lo] = CurlValue.value]
    /\ lo' = lo + 1
    /\ jac_calls' = jac_calls + 1
    /\ UNCHANGED <<pc, err, X, vf_dict, args, Js, chunks, pool_ret, ret, div, pseudotimeVars>>

\* utils_vecCalc.py 401-402: f or the assignment raises
CurlPointRaises ==
    /\ pc = "curl_loop"
    /\ lo < Len0(X)
    /\ \/ CurlValue.raised /\ err' = CurlValue.err
       \/ /\ ~CurlValue.raised
          /\ ~Broadcasts(CurlValue.shape, CurlSlot)
          /\ err' = "ValueError: could not broadcast input array"
    /\ jac_calls' = jac_calls + 1
    /\ pc' = "raised"
    /\ UNCHANGED <<X, vf_dict, args, Js, chunks, pool_ret, ret, div, curl, lo, pseudotimeVars>>

\* utils_vecCalc.py 404
CurlReturn ==
    /\ pc = "curl_loop"
    /\ lo >= Len0(X)
    /\ ret' = curl
    /\ pc' = "done"
    /\ UNCHANGED <<err, X, vf_dict, args, Js, chunks, pool_ret, div, curl, lo, jac_calls,
                   pseudotimeVars>>

NextVec ==
    \/ VectorFieldReturns
    \/ VectorFieldRaises
    \/ JacParFanOut
    \/ JacWorker
    \/ JacParGather
    \/ SubsetSequential
    \/ SubsetFanOut
    \/ TransformWorker
    \/ SubsetGather
    \/ DivEnter
    \/ DivRaises
    \/ DivBatch
    \/ DivReturn
    \/ CurlRaises
    \/ CurlEnter
    \/ CurlPoint
    \/ CurlPointRaises
    \/ CurlReturn

SpecVec == InitVec /\ [][NextVec]_vars

\* ------------------------------ jacobian and divergence on one container
\* np.arange(n)
arange(n) == [p \in 0..(n - 1) |-> p]

\* the rows of the PCA loading matrix Q of the genes 0 and 1
LoadingRow(g, d) == [k \in 0..(d - 1) |-> IF g = 0 /\ k # 0 THEN 0 ELSE 1]

\* elementwise_jacobian_transformation: ret[i] = qi @ Js[:, :, i] @ qj
elementwise_jacobian_transformation(tensor, qi, qj) ==
    [p \in DOMAIN tensor[0][0] |->
        Sum([r \in DOMAIN tensor |->
            Sum([c \in DOMAIN tensor |-> qi[r] * tensor[r][c][p] * qj[c]])])]

\* basis=None
NoBasis == "None"

\* "jacobian" if basis is None else "jacobian_" + basis
JacobianKey(basis) == IF basis = NoBasis THEN "jacobian" ELSE "jacobian_" \o basis

DivergenceKey(basis) == IF basis = NoBasis THEN "divergence" ELSE "divergence_" \o basis

\* a store that replaces the cell indices of the record and keeps its tensor
StoreJacobian_patch(uns, key, record) ==
    IF key \in DOMAIN uns
    THEN Put(uns, key, [uns[key] EXCEPT !.cell_idx = record.cell_idx])
    ELSE Put(uns, key, record)

\* adata.uns[Jacobian_] = {...}
StoreJacobian(uns, key, record) == Put(uns, key, record)

\* an array object: its value and the call that created it
Array(value, call) == [array |-> value, made_by |-> call]

\* A container of 1..MaxObs cells with a fitted vector field of dimension
\* 1 or 2; nothing is cached and no divergence is stored.
InitJac ==
    /\ vf_dict \in [field : Fields, d : 1..2, has_div_cur_free_kernels : {FALSE}]
    /\ \E n \in 1..MaxObs : \E up \in BOOLEAN :
          X = [p \in 0..(n - 1) |->
                  [k \in 0..(vf_dict.d - 1) |-> IF up THEN p ELSE n - 1 - p]]
    /\ pc = "idle"
    /\ err = ""
    /\ args = << >>
    /\ Js = << >>
    /\ chunks = << >>
    /\ pool_ret = << >>
    /\ ret = << >>
    /\ div = << >>
    /\ curl = << >>
    /\ lo = 0
    /\ jac_calls = 0
    /\ dp = << >>
    /\ mst = {}
    /\ root_cell = None
    /\ NoOrderRun
    /\ Z = << >>
    /\ Y = << >>
    /\ stree = {}
    /\ root_state = None
    /\ reverse = FALSE
    /\ adata_obs = << >>
    /\ obs_assigned = << >>
    /\ adata_uns = << >>
    /\ NoLocals
    /\ runs = 0

n_obs == Len0(X)

\* The arguments of a call of jacobian: the regulators and effectors that
\* are velocity genes, the basis and the method.
JacobianArgs ==
    [fn : {"jacobian"}, regulators : SUBSET {0, 1}, effectors : SUBSET {0, 1},
     basis : {"pca", NoBasis}, method : {"analytical", "spline"}]

\* vector_calculus.py 242-285: the exception the call ends with, "" if none.
\* subset_jacobian_transformation has no parameter return_raw_J, so the call
\* of lines 284-285 is rejected.
JacobianError(a) ==
    IF a.regulators = {} \/ a.effectors = {}
    THEN "ValueError: the source and target gene list you provided are not in the velocity gene list!"
    ELSE IF a.basis = NoBasis
    THEN "TypeError: can only concatenate str (not NoneType) to str"
    ELSE IF a.method # "analytical"
    THEN "NotImplementedError: the Jacobian matrix calculation method is not implemented"
    ELSE IF ~(Cardinality(a.regulators) = 1 /\ Cardinality(a.effectors) = 1)
    THEN "TypeError: subset_jacobian_transformation() got an unexpected keyword argument 'return_raw_J'"
    ELSE ""

\* vector_calculus.py 242-291, the call stores its record
JacobianStores ==
    /\ pc \in {"idle", "done", "raised"}
    /\ runs < MaxCalls
    /\ \E a \in JacobianArgs :
          /\ JacobianError(a) = ""
          /\ args' = a
          /\ Js' = Jacobian_rkhs_gaussian(X, vf_dict)
          /\ LET eff == CHOOSE g \in a.effectors : TRUE
                 reg == CHOOSE g \in a.regulators : TRUE
             IN  adata_uns' = StoreJacobian(adata_uns, JacobianKey(a.basis),
                    [Jacobian |-> elementwise_jacobian_transformation(Js',
                                      LoadingRow(eff, vf_dict.d), LoadingRow(reg, vf_dict.d)),
                     Jacobian_raw |-> Array(Js', runs + 1),
                     source_gene |-> a.regulators,
                     effectors |-> a.effectors,
                     cell_idx |-> Array(arange(n_obs), runs + 1)])
    /\ runs' = runs + 1
    /\ jac_calls' = 1
    /\ pc' = "done"
    /\ ret' = << >>
    /\ err' = ""
    /\ UNCHANGED <<X, vf_dict, chunks, pool_ret, div, curl, lo, obsVars>>
    /\ UNCHANGED <<dp, mst, root_cell, orderVars, Z, Y, stree, root_state, reverse,
                   root_numpy, cc_ordering, projVars, cc_ordering_new_pseudotime>>

\* vector_calculus.py 242-285, the call raises
JacobianRaises ==
    /\ pc \in {"idle", "done", "raised"}
    /\ runs < MaxCalls
    /\ \E a \in JacobianArgs :
          /\ JacobianError(a) # ""
          /\ args' = a
          /\ err' = JacobianError(a)
    /\ runs' = runs + 1
    /\ jac_calls' = 0
    /\ pc' = "raised"
    /\ ret' = << >>
    /\ UNCHANGED <<X, vf_dict, Js, chunks, pool_ret, div, curl, lo, obsVars, adata_uns>>
    /\ UNCHANGED <<dp, mst, root_cell, orderVars, Z, Y, stree, root_state, reverse,
                   root_numpy, cc_ordering, projVars, cc_ordering_new_pseudotime>>

\* the values of an array
Values(a) == {a[k] : k \in DOMAIN a}

\* cell_idx=None
NoCellIdx == << >>

\* the selections of cells a caller passes as cell_idx: 1..n_obs cells in
\* any order, repeated or not
CellSelections == UNION {[0..(k - 1) -> 0..(n_obs - 1)] : k \in 1..n_obs}

DivergenceArgs ==
    [fn : {"divergence"}, cell_idx : {NoCellIdx} \cup CellSelections,
     basis : {"pca", "umap"}, store_in_adata : BOOLEAN, vectorize_size : {1, None}]

\* vector_calculus.py 378-383: the cells the call works on
EffectiveCellIdx(a) ==
    IF a.basis = "umap" THEN arange(n_obs)
    ELSE IF a.cell_idx = NoCellIdx THEN arange(n_obs)
    ELSE a.cell_idx

\* compute_divergence as a function of its arguments: entry p comes from
\* the batch that holds p
compute_divergence(x, vectorize_size, vf) ==
    LET step == BatchStep([X |-> x, vectorize_size |-> vectorize_size])
    IN  IF step = 0 THEN Raise("ValueError: range() arg 3 must not be zero")
        ELSE [raised |-> FALSE,
              value |-> [p \in DOMAIN x |->
                  LET first == (p \div step) * step
                  IN  trace(Jacobian_rkhs_gaussian(Slice(x, first, first + step), vf))[p - first]],
              batches |-> CeilDiv(Len0(x), step)]

\* vector_calculus.py 395-407: the vector div of the call, or the exception
divergence(a, uns) ==
    LET cell_idx   == EffectiveCellIdx(a)
        jkey       == JacobianKey(a.basis)
        cached     == jkey \in DOMAIN uns
        Jraw       == uns[jkey].Jacobian_raw.array
        cidx       == uns[jkey].cell_idx.array
        calculated(q) == cached /\ cell_idx[q] \in Values(cidx)
        slice(k)   == Sum([r \in DOMAIN Jraw |-> Jraw[r][r][k]])
        todo       == AscSeq({q \in DOMAIN cell_idx : ~calculated(q)})
        rest       == [k \in 0..(Len(todo) - 1) |-> X[cell_idx[todo[k + 1]]]]
        computed   == compute_divergence(rest, a.vectorize_size, vf_dict)
    IN  IF computed.raised THEN computed
        ELSE [raised |-> FALSE,
              cell_idx |-> cell_idx,
              reused |-> {q \in DOMAIN cell_idx : calculated(q)},
              batches |-> computed.batches,
              value |-> [q \in DOMAIN cell_idx |->
                  IF calculated(q)
                  THEN IF Len0(Jraw[0][0]) = Len0(cell_idx) THEN slice(q)
                       ELSE slice(cell_idx[q])
                  ELSE computed.value[(CHOOSE k \in 1..Len(todo) : todo[k] = q) - 1]]]

\* vector_calculus.py 409-413: Div[cell_idx] = div, the last assignment to
\* a repeated index stays
StoreDivergence(obs, key, cell_idx, value) ==
    LET Div == IF key \in DOMAIN obs THEN obs[key] ELSE [c \in 0..(n_obs - 1) |-> NaN]
    IN  Put(obs, key,
            [c \in DOMAIN Div |->
                IF c \in Values(cell_idx)
                THEN value[SetMax({q \in DOMAIN cell_idx : cell_idx[q] = c})]
                ELSE Div[c]])

\* vector_calculus.py 374-414, the call returns
DivergenceReturns ==
    /\ pc \in {"idle", "done", "raised"}
    /\ runs < MaxCalls
    /\ \E a \in DivergenceArgs :
          LET r == divergence(a, adata_uns)
          IN  /\ ~r.raised
              /\ args' = a
              /\ div' = r.value
              /\ ret' = r.value
              /\ jac_calls' = r.batches
              /\ adata_obs' = IF a.store_in_adata
                              THEN StoreDivergence(adata_obs, DivergenceKey(a.basis),
                                                   r.cell_idx, r.value)
                              ELSE adata_obs
    /\ runs' = runs + 1
    /\ pc' = "done"
    /\ err' = ""
    /\ UNCHANGED <<X, vf_dict, Js, chunks, pool_ret, curl, lo, obs_assigned, adata_uns>>
    /\ UNCHANGED <<dp, mst, root_cell, orderVars, Z, Y, stree, root_state, reverse,
                   root_numpy, cc_ordering, projVars, cc_ordering_new_pseudotime>>

\* vector_calculus.py 407, compute_divergence raises
DivergenceRaises ==
    /\ pc \in {"idle", "done", "raised"}
    /\ runs < MaxCalls
    /\ \E a \in DivergenceArgs :
          LET r == divergence(a, adata_uns)
          IN  /\ r.raised
              /\ args' = a
              /\ err' = r.err
    /\ runs' = runs + 1
    /\ jac_calls' = 0
    /\ pc' = "raised"
    /\ ret' = << >>
    /\ UNCHANGED <<X, vf_dict, Js, chunks, pool_ret, div, curl, lo, obsVars, adata_uns>>
    /\ UNCHANGED <<dp, mst, root_cell, orderVars, Z, Y, stree, root_state, reverse,
                   root_numpy, cc_ordering, projVars, cc_ordering_new_pseudotime>>

NextJac == JacobianStores \/ JacobianRaises \/ DivergenceReturns \/ DivergenceRaises

SpecJac == InitJac /\ [][NextJac]_vars

\* ------------------------------------ properties of get_order_from_DDRTree
OrderDone == pc = "order_done"

\* C1: in the returned table the pseudo_time of the root vertex is exactly 0,
\* for every tree and every root vertex.
C1_RootPseudotimeZero ==
    OrderDone => Loc(ordering_df, root_cell, "pseudo_time") = 0

C1_Witness ==
    /\ OrderDone
    /\ root_cell # 0
    /\ \E r \in Range(ordering_df) : r.pseudo_time > 0

\* C2: every non-root vertex v reached from p has
\* pseudo_time(v) = pseudo_time(p) + dp[v, p], so pseudotime does not decrease
\* along a root-to-leaf path; for every tree and root.
C2_ChildAddsEdgeLength ==
    OrderDone =>
        \A k \in 2..Len(orders) :
            /\ Loc(ordering_df, orders[k], "pseudo_time")
                 = Loc(ordering_df, pres[k], "pseudo_time") + dp[orders[k]][pres[k]]
            /\ Loc(ordering_df, orders[k], "pseudo_time")
                 >= Loc(ordering_df, pres[k], "pseudo_time")

\* C3: the root has parent -1 and every other vertex has as parent the vertex
\* from which the DFS reached it, for every root vertex.
C3_ParentColumn ==
    OrderDone =>
        /\ Loc(ordering_df, root_cell, "parent") = -1
        /\ \A k \in 2..Len(orders) :
               Loc(ordering_df, orders[k], "parent") = pres[k]

\* C4: a visit increments the state counter by exactly 1 when the vertex is
\* not the root and its DFS parent has degree > 2, leaves it unchanged on
\* every other visit, and labels the vertex with the counter after the step.
C4_CounterStep ==
    [][(pc = "order_loop" /\ i < Len(orders)) =>
          /\ curr_state' = curr_state
                 + (IF i > 0 /\ degree(mst, pres[i + 1]) > 2 THEN 1 ELSE 0)
          /\ Len(ordering_dict'.cell_pseudo_state) = i + 1
          /\ ordering_dict'.cell_pseudo_state[i + 1] = curr_state']_vars

\* C5 as stated: a vertex whose DFS parent has degree 3 or less gets the state
\* id of the vertex visited just before it.
C5_ThresholdThree ==
    OrderDone =>
        \A k \in 2..Len(orders) :
            degree(mst, pres[k]) <= 3 =>
                ordering_dict.cell_pseudo_state[k] = ordering_dict.cell_pseudo_state[k - 1]

\* C5 amended: a non-root vertex whose DFS parent has degree 2 or less gets
\* the state id of the vertex visited just before it; the state id increases
\* only at vertices whose parent has degree > 2.
C5_ThresholdTwo ==
    OrderDone =>
        \A k \in 2..Len(orders) :
            degree(mst, pres[k]) <= 2 =>
                ordering_dict.cell_pseudo_state[k] = ordering_dict.cell_pseudo_state[k - 1]

C5_Witness ==
    /\ OrderDone
    /\ root_cell # 0
    /\ \E k \in 2..Len(orders) :
          /\ pres[k] # 0
          /\ degree(mst, pres[k]) = 2
          /\ ordering_dict.cell_pseudo_state[k] = ordering_dict.cell_pseudo_state[k - 1]

\* C6: the state ids in DFS visit order start at 0, never decrease and step
\* by at most 1.
C6_StateSequence ==
    OrderDone =>
        /\ ordering_dict.cell_pseudo_state[1] = 0
        /\ \A k \in 2..Len(orders) :
              /\ ordering_dict.cell_pseudo_state[k] >= ordering_dict.cell_pseudo_state[k - 1]
              /\ ordering_dict.cell_pseudo_state[k] <= ordering_dict.cell_pseudo_state[k - 1] + 1

\* ------------------------------------------------ properties of order_cells
\* C7: the Pseudotime written last by a completed order_cells run is the DFS
\* ordering over the refined tree and refined distances returned by
\* project2MST, started at the refined root.
C7_FinalOrderOverRefinedTree ==
    pc = "returned" =>
        adata_obs["Pseudotime"]
          = Column(get_order_from_DDRTree(cellPairwiseDistances,
                                          pr_graph_cell_proj_tree, root_cell),
                   "pseudo_time")

\* C8: in root refinement, when no cell mapped to the root vertex is a tree
\* tip (or no cell is mapped to it at all), the run does not fail: it takes
\* the root that select_root_cell gives, stores it and goes on to the final
\* ordering.
C8_RefinementFallsBack ==
    [][(pc = "root_refinement" /\ TipsAmongMapped = {}) =>
          /\ pc' = "final_order"
          /\ \E r \in select_root_cell(adata_obs, adata_uns, Z, root_state, reverse) :
                ~r.raised /\ root_cell' = r.root_cell
          /\ adata_uns'["cell_order"]["root_cell"] = root_cell']_vars

\* C9: with a root_state requested and no cell_pseudo_state column in the
\* container, select_root_cell, and with it order_cells, ends in the
\* precedence error and returns no root, whatever the other arguments.
C9_PrecedenceError ==
    (root_state # None /\ "cell_pseudo_state" \notin DOMAIN adata_obs) =>
        \/ pc = "select_root"
        \/ pc = "raised" /\ err = ErrStateNotSet /\ root_cell = None

C9_Witness ==
    /\ pc = "raised"
    /\ err = ErrStateNotSet
    /\ root_state # None
    /\ reverse
    /\ "Pseudotime" \in DOMAIN adata_obs

\* C10: with a root_state requested that no cell has, select_root_cell ends
\* in the empty-candidate error and returns no root.
C10_EmptyCandidateError ==
    (/\ root_state # None
     /\ "cell_pseudo_state" \in DOMAIN adata_obs
     /\ \A c \in DOMAIN adata_obs["cell_pseudo_state"] :
            adata_obs["cell_pseudo_state"][c] # root_state) =>
        \/ pc = "select_root"
        \/ pc = "raised" /\ err = ErrNoCells /\ root_cell = None

C10_Witness ==
    /\ pc = "raised"
    /\ err = ErrNoCells
    /\ root_state # None
    /\ "cell_pseudo_state" \in DOMAIN adata_obs
    /\ \A c \in DOMAIN adata_obs["cell_pseudo_state"] :
           adata_obs["cell_pseudo_state"][c] # root_state

\* C11: the ordering is never partially patched: when an order_cells call has
\* returned, both Pseudotime and cell_pseudo_state were assigned by that call,
\* with and without a root_state; neither is left from an earlier call.
C11_NeverPartiallyPatched ==
    pc = "returned" =>
        /\ DOMAIN obs_assigned = {"Pseudotime", "cell_pseudo_state"}
        /\ obs_assigned["Pseudotime"] = runs
        /\ obs_assigned["cell_pseudo_state"] = runs

\* a path of the tree T that no path of T exceeds in length
IsLongestPath(T, path) ==
    /\ Len(path) >= 1
    /\ \A k \in 1..(Len(path) - 1) : {path[k], path[k + 1]} \in T
    /\ \A j, k \in 1..Len(path) : path[j] = path[k] => j = k
    /\ \A a, b \in 0..(NCells - 1) : Len(TreePath(T, a, b)) <= Len(path)

\* C12: with no root_state select_root_cell returns an end of the diameter
\* path of the stored spanning tree, the first vertex when reverse is false
\* and the last when reverse is true; the call with the other value of
\* reverse returns the opposite end of the same path.
C12_DiameterEndpoint ==
    (pc = "initial_order" /\ root_state = None) =>
        LET T    == adata_uns["cell_order"]["minSpanningTree"]
            path == get_diameter(T, NCells)
            near == path[1]
            far  == path[Len(path)]
        IN  /\ IsLongestPath(T, path)
            /\ root_cell = (IF reverse THEN far ELSE near)
            /\ near # far
            /\ \A r \in select_root_cell(adata_obs, adata_uns, Z, None, ~reverse) :
                  /\ ~r.raised
                  /\ r.root_cell = (IF reverse THEN near ELSE far)

C12_Witness ==
    /\ pc = "initial_order"
    /\ root_state = None
    /\ reverse
    /\ runs = 2
    /\ Len(get_diameter(adata_uns["cell_order"]["minSpanningTree"], NCells)) = 3
    /\ root_cell # 0

\* the request of select_root_cell finds the stored root in the requested state
PreviousRootInState ==
    /\ adata_uns["cell_order"]["root_cell"] # None
    /\ adata_obs["cell_pseudo_state"][adata_uns["cell_order"]["root_cell"]] = root_state

\* the cells on a diameter path of a minimum spanning tree of the cells in
\* the requested state, for every tree the library may build
StateDiameterCells ==
    LET cps   == adata_obs["cell_pseudo_state"]
        cands == AscSeq({c \in DOMAIN cps : cps[c] = root_state})
        m     == Len(cands)
        w     == [a \in 0..(m - 1) |-> [b \in 0..(m - 1) |->
                     Abs(Z[cands[a + 1]] - Z[cands[b + 1]])]]
    IN  {{cands[k + 1] : k \in Range(get_diameter(F, m))} : F \in MinSpanningForests(w, m)}

\* C13: with a root_state select_root_cell picks, among the cells of that
\* state on the diameter path, one with minimum existing Pseudotime when a
\* previous root is stored and has the requested state, and one with maximum
\* existing Pseudotime otherwise; it returns the closest vertex of that cell.
C13_RootByState ==
    (pc = "initial_order" /\ root_state # None) =>
        LET pt == adata_obs["Pseudotime"]
            cv == adata_uns["cell_order"]["pr_graph_cell_proj_closest_vertex"]
        IN  \E D \in StateDiameterCells : \E c \in D :
              /\ \A e \in D : IF PreviousRootInState THEN pt[c] <= pt[e] ELSE pt[c] >= pt[e]
              /\ root_cell = cv[c]

C13_Witness ==
    /\ pc = "initial_order"
    /\ root_state # None
    /\ ~PreviousRootInState
    /\ \A D \in StateDiameterCells :
          \E c, e \in D :
             /\ adata_obs["Pseudotime"][c] < adata_obs["Pseudotime"][e]
             /\ root_cell # adata_uns["cell_order"]["pr_graph_cell_proj_closest_vertex"][c]
             /\ root_cell # e

\* project2MST has returned in the current call
Reprojected == pc \in {"root_refinement", "final_order", "returned"}

\* C14: in the refined distance matrix returned by project2MST every diagonal
\* entry is 0 and every off-diagonal entry is the distance of the two
\* projected points plus the smallest non-zero projected distance, so no
\* off-diagonal entry is 0, also for cells projected onto the same point.
C14_FlooredDistances ==
    Reprojected =>
        LET P     == pr_graph_cell_proj_dist
            cells == DOMAIN P
            floor == SetMin({Abs(P[a] - P[b]) : a, b \in cells} \ {0})
        IN  \A a, b \in cells :
              /\ a = b => cellPairwiseDistances[a][b] = 0
              /\ a # b => /\ cellPairwiseDistances[a][b] = Abs(P[a] - P[b]) + floor
                          /\ cellPairwiseDistances[a][b] > 0

C14_Witness ==
    /\ Reprojected
    /\ \E a, b \in DOMAIN pr_graph_cell_proj_dist :
          /\ a # b
          /\ Z[a] # Z[b]
          /\ pr_graph_cell_proj_dist[a] = pr_graph_cell_proj_dist[b]
          /\ cellPairwiseDistances[a][b] > 0

\* q lies on the segment between the points A and B
OnSegment(q, A, B) ==
    /\ (IF A < B THEN A ELSE B) <= q
    /\ q <= (IF A < B THEN B ELSE A)

\* q is the point of the segment between A and B nearest to z
NearestOnSegment(q, z, A, B) ==
    /\ OnSegment(q, A, B)
    /\ \A r \in 0..MaxCoord : OnSegment(r, A, B) => Abs(z - q) <= Abs(z - r)

\* q is the foot of the perpendicular from z on the line through A and B
FootOnLine(q, z, A, B) == (z - q) * (B - A) = 0

\* the stored projection of cell c is a candidate of the edge to x and no
\* candidate of another edge at the closest vertex is nearer to the cell
KeptNearest(c, x, OnEdge(_, _, _, _)) ==
    LET cv == pr_graph_cell_proj_closest_vertex[c]
        q  == pr_graph_cell_proj_dist[c]
    IN  /\ OnEdge(q, Z[c], Y[cv], Y[x])
        /\ \A y \in neighbors(mst, cv) : \A r \in 0..MaxCoord :
              OnEdge(r, Z[c], Y[cv], Y[y]) => Abs(Z[c] - q) <= Abs(Z[c] - r)

\* C15 as stated: every cell is projected onto the nearest of the candidate
\* points of the tree edges at its closest vertex, and the candidate of an
\* edge is the point of the segment nearest to the cell, both when the
\* closest vertex is a tip and when it is not.
C15_ProjectionOnSegment ==
    Reprojected =>
        \A c \in DOMAIN Z :
            \E x \in neighbors(mst, pr_graph_cell_proj_closest_vertex[c]) :
                KeptNearest(c, x, NearestOnSegment)

\* C15 amended: for a cell whose closest vertex is not a tip the candidate of
\* an edge is the point of the segment nearest to the cell; for a cell whose
\* closest vertex is a tip it is the foot of the perpendicular on the whole
\* line through the tip and its neighbour, which may lie beyond the tip; the
\* candidate nearest to the cell is kept.
C15_TipProjectsOnLine ==
    Reprojected =>
        \A c \in DOMAIN Z :
            LET cv == pr_graph_cell_proj_closest_vertex[c]
            IN  \E x \in neighbors(mst, cv) :
                  IF cv \in TipLeaves(mst, NCells)
                  THEN KeptNearest(c, x, FootOnLine)
                  ELSE KeptNearest(c, x, NearestOnSegment)

C15_Witness ==
    /\ Reprojected
    /\ \E c \in DOMAIN Z :
          LET cv == pr_graph_cell_proj_closest_vertex[c]
          IN  /\ cv \in TipLeaves(mst, NCells)
              /\ \A x \in neighbors(mst, cv) :
                    ~OnSegment(pr_graph_cell_proj_dist[c], Y[cv], Y[x])
    /\ \E c \in DOMAIN Z :
          LET cv == pr_graph_cell_proj_closest_vertex[c]
          IN  /\ cv \notin TipLeaves(mst, NCells)
              /\ \E x \in neighbors(mst, cv) :
                    OnSegment(pr_graph_cell_proj_dist[c], Y[cv], Y[x])


\* ------------------------------------------- properties of vector calculus
\* the function fn has been called and has not been left, or has ended
Called(fn) == pc # "idle" /\ DOMAIN args # {} /\ args.fn = fn

Ended == pc \in {"done", "raised"}

\* C16: vector_field_function called with kernel 'df_kernel' or 'cf_kernel'
\* on a fitted model without div-curl-free kernels fails with the
\* invalid-kernel-variant error and never returns a value computed with the
\* plain Gaussian kernel.
C16_VariantNeedsKernels ==
    (/\ Called("vector_field_function")
     /\ Ended
     /\ args.kernel \in {"df_kernel", "cf_kernel"}
     /\ ~vf_dict.has_div_cur_free_kernels)
    => /\ pc = "raised"
       /\ err = ErrKernel

\* the number of points of chunk j and the index of its first point
ChunkLen(j) == IF pc = "subset_pool" \/ args.fn = "subset_jacobian_transformation"
               THEN Len0(chunks[j][0][0]) ELSE Len0(chunks[j])

ChunkStart(j) == Sum([k \in 0..(j - 2) |-> ChunkLen(k + 1)])

\* the point index that position p of chunk j came from, by its content
PointOfChunk(j, p) ==
    IF args.fn = "subset_jacobian_transformation"
    THEN [r \in DOMAIN Js |-> [c \in DOMAIN Js |-> chunks[j][r][c][p]]]
         = [r \in DOMAIN Js |-> [c \in DOMAIN Js |-> Js[r][c][ChunkStart(j) + p]]]
    ELSE chunks[j][p] = X[ChunkStart(j) + p]

\* what the worker of chunk j returns
WorkerResult(j) ==
    IF args.fn = "subset_jacobian_transformation"
    THEN transform_jacobian(chunks[j], args.Qi, args.Qj)
    ELSE Jacobian_rkhs_gaussian(chunks[j], vf_dict)

\* slice i of the result computed from point i alone
SliceOfPoint(q) ==
    LET J == JacobianAt(X[q], vf_dict)
    IN  IF args.fn = "subset_jacobian_transformation"
        THEN [a \in DOMAIN args.Qi |-> [b \in DOMAIN args.Qj |->
                 Sum([r \in DOMAIN J |->
                     Sum([c \in DOMAIN J |-> args.Qi[a][r] * J[r][c] * args.Qj[b][c]])])]]
        ELSE J

FannedOut ==
    /\ \/ Called("Jacobian_rkhs_gaussian_parallel")
       \/ Called("subset_jacobian_transformation") /\ args.cores > 1
    /\ pc # "raised"

\* C17: for n >= 1 points and cores >= 1 workers the fan-out of both parallel
\* functions cuts 0..n-1 into at most cores non-empty contiguous chunks that
\* cover every index exactly once, every finished worker's slot holds the
\* result of its own chunk, and the gathered result has slice i computed
\* from point i, whatever order the workers finished in.
C17_ChunksInOrder ==
    FannedOut =>
        /\ Len(chunks) >= 1
        /\ Len(chunks) <= args.cores
        /\ \A j \in 1..Len(chunks) : ChunkLen(j) >= 1
        /\ ChunkStart(Len(chunks) + 1) = Len0(X)
        /\ \A j \in 1..Len(chunks) : \A p \in 0..(ChunkLen(j) - 1) : PointOfChunk(j, p)
        /\ \A j \in 1..Len(chunks) :
              pool_ret[j] # Pending => pool_ret[j] = WorkerResult(j)
        /\ pc = "done" =>
              \A q \in DOMAIN X :
                  [a \in DOMAIN ret |-> [b \in DOMAIN ret[a] |-> ret[a][b][q]]]
                      = SliceOfPoint(q)

\* three points of a field whose Jacobian differs from point to point in
\* two chunks of unequal size, the worker of the second finished first
C17_Witness ==
    /\ Called("Jacobian_rkhs_gaussian_parallel")
    /\ pc = "jac_pool"
    /\ vf_dict.field = "quadratic"
    /\ Len0(X) = 3
    /\ Len(chunks) = 2
    /\ ChunkLen(1) = 2
    /\ ChunkLen(2) = 1
    /\ pool_ret[1] = Pending
    /\ pool_ret[2] # Pending

\* C18: subset_jacobian_transformation with cores > 1 returns the tensor it
\* returns with cores = 1 on the same Jacobians, Qi and Qj, of the same
\* shape and point order: slice i is Qi * J_i * Qj^T.
C18_ParallelEqualsSequential ==
    (Called("subset_jacobian_transformation") /\ pc = "done") =>
        /\ ret = transform_jacobian(Js, args.Qi, args.Qj)
        /\ DOMAIN ret = DOMAIN args.Qi
        /\ \A a \in DOMAIN ret :
              /\ DOMAIN ret[a] = DOMAIN args.Qj
              /\ \A b \in DOMAIN ret[a] :
                    /\ DOMAIN ret[a][b] = DOMAIN X
                    /\ \A q \in DOMAIN X : ret[a][b][q] = SliceOfPoint(q)[a][b]

\* a run on several workers whose result has the shape (2, 1, n) and
\* slices that differ from point to point
C18_Witness ==
    /\ Called("subset_jacobian_transformation")
    /\ pc = "done"
    /\ args.cores > 1
    /\ Len(chunks) > 1
    /\ Len0(args.Qi) = 2
    /\ Len0(args.Qj) = 1
    /\ Len0(X) = 3
    /\ ret[0][0][0] # ret[0][0][1]
    /\ ret[0][0][1] # ret[0][0][2]

\* C19: compute_divergence returns the same vector for every
\* vectorize_size >= 1 and for vectorize_size = None: the batches visit
\* every index once in increasing order and entry i of the result is the
\* trace of the Jacobian at point i.
C19_DivergenceAnyBatch ==
    Called("compute_divergence") =>
        /\ pc # "raised"
        /\ lo % BatchStep(args) = 0
        /\ jac_calls = lo \div BatchStep(args)
        /\ \A q \in DOMAIN args.X :
              (q < lo \/ pc = "done") =>
                  div[q] = Sum([r \in 0..(vf_dict.d - 1) |->
                                  JacobianAt(args.X[q], vf_dict)[r][r]])
        /\ pc = "done" => ret = div /\ DOMAIN ret = DOMAIN args.X

\* C20: compute_curl fails with the dimension error for every embedding
\* dimension other than 2 or 3, dimension 1 included, before evaluating any
\* Jacobian, and returns one curl value per point for dimension 2 (the
\* scalar J[1,0] - J[0,1]) and for dimension 3 (a 3-vector).
C20_CurlByDimension ==
    Called("compute_curl") =>
        /\ Columns(X) \notin {2, 3} =>
              /\ pc = "raised"
              /\ err = ErrDimension
              /\ jac_calls = 0
        /\ Columns(X) \in {2, 3} =>
              /\ pc # "raised"
              /\ pc = "done" =>
                    /\ DOMAIN ret = DOMAIN X
                    /\ \A q \in DOMAIN X :
                          LET J == JacobianAt(X[q], vf_dict)
                          IN  IF Columns(X) = 2 THEN ret[q] = J[1][0] - J[0][1]
                              ELSE ret[q] = <<J[2][1] - J[1][2], J[0][2] - J[2][0],
                                              J[1][0] - J[0][1]>>


\* ---------------------------- properties of jacobian and divergence calls
\* the last call was divergence and it returned
DivergenceDone == pc = "done" /\ DOMAIN args # {} /\ args.fn = "divergence"

\* the position of cell c in the stored cell_idx of the record
CachedPosition(record, c) ==
    CHOOSE k \in DOMAIN record.cell_idx.array : record.cell_idx.array[k] = c

C29_OnlyRequestedCellsWritten ==
    [][(pc' = "done" /\ runs' = runs + 1 /\ args'.fn = "divergence"
            /\ args'.store_in_adata) =>
          LET key       == DivergenceKey(args'.basis)
              requested == IF args'.cell_idx = NoCellIdx THEN 0..(n_obs - 1)
                           ELSE Values(args'.cell_idx)
          IN  /\ DOMAIN adata_obs' = (DOMAIN adata_obs) \cup {key}
              /\ \A other \in (DOMAIN adata_obs) \ {key} :
                    adata_obs'[other] = adata_obs[other]
              /\ \A c \in 0..(n_obs - 1) :
                    c \notin requested =>
                        adata_obs'[key][c] = IF key \in DOMAIN adata_obs
                                             THEN adata_obs[key][c] ELSE NaN]_vars


\* ------------------------------------------ properties of the final order
\* the number of edges of the tree T that end in v
EdgesAt(T, v) == Cardinality({e \in T : v \in e})

\* C24: after order_cells completes, cell_order['branch_points'] is exactly
\* the set of the vertices of the refined spanning tree, the one stored as
\* minSpanningTree, that have more than two edges.
C24_BranchPointsOfRefinedTree ==
    pc = "returned" =>
        LET cell_order == adata_uns["cell_order"]
        IN  \A v \in 0..(NCells - 1) :
                v \in cell_order["branch_points"]
                    <=> EdgesAt(cell_order["minSpanningTree"], v) >= 3

\* a completed run whose refined tree has a vertex with three edges and
\* vertices with two edges or one
C24_Witness ==
    /\ pc = "returned"
    /\ \E v \in 0..(NCells - 1) :
          /\ EdgesAt(pr_graph_cell_proj_tree, v) = 3
          /\ v \in adata_uns["cell_order"]["branch_points"]
    /\ \E v \in 0..(NCells - 1) :
          /\ EdgesAt(pr_graph_cell_proj_tree, v) = 1
          /\ v \notin adata_uns["cell_order"]["branch_points"]


\* ------------------------------ further properties of get_order_from_DDRTree
\* the sum of the edge lengths along a path of vertices
RECURSIVE PathLength(_, _)
PathLength(d, path) ==
    IF Len(path) < 2 THEN 0
    ELSE d[path[1]][path[2]] + PathLength(d, Tail(path))

\* a tree of one junction with three arms of one edge, the root at a tip
YTreeFromTip ==
    /\ NVert = 4
    /\ \E c \in 0..3 : EdgesAt(mst, c) = 3
    /\ EdgesAt(mst, root_cell) = 1

\* C23: on a Y-shaped tree with the root at the tip of the stem every vertex
\* gets the sum of the edge lengths of its tree path from the root as
\* pseudotime and exactly the junction is a branch point, whichever vertex
\* carries index 0.
C23_YTreeFromStemTip ==
    (OrderDone /\ YTreeFromTip) =>
        /\ \A v \in 0..(NVert - 1) :
              Loc(ordering_df, v, "pseudo_time")
                  = PathLength(dp, TreePath(mst, root_cell, v))
        /\ \E c \in 0..(NVert - 1) :
              /\ BranchPoints(mst, NVert) = {c}
              /\ neighbors(mst, c) = (0..(NVert - 1)) \ {c}

\* C25: get_order_from_DDRTree on a spanning tree returns one row per
\* vertex: the DFS visits every vertex exactly once, every vertex but the
\* root after its parent, and the table is indexed by vertex index in
\* increasing order.
C25_OneRowPerVertex ==
    OrderDone =>
        /\ Len(orders) = NVert
        /\ Range(orders) = 0..(NVert - 1)
        /\ orders[1] = root_cell
        /\ \A k \in 2..Len(orders) :
              /\ {pres[k], orders[k]} \in mst
              /\ \E j \in 1..(k - 1) : orders[j] = pres[k]
        /\ Len(ordering_df) = NVert
        /\ \A k \in 1..Len(ordering_df) : ordering_df[k].cell_index = k - 1

\* a tree of four vertices with a branch point whose visits are not in
\* the order of the vertex indices
C25_Witness ==
    /\ OrderDone
    /\ NVert = 4
    /\ \E c \in 0..3 : EdgesAt(mst, c) = 3
    /\ \E k \in 1..3 : orders[k] > orders[k + 1]
    /\ root_cell # 0

\* C26: in the returned table the root vertex has state id 0, for every
\* root vertex index and every root degree, a root of degree > 2 included.
C26_RootStateZero ==
    OrderDone => Loc(ordering_df, root_cell, "cell_pseudo_state") = 0


\* ------------------------------------------ the root order_cells leaves
\* C27: when order_cells returns, cell_order['root_cell'] is the root of
\* the final DFS, a degree-1 tip of the tree that DFS ran on, with stored
\* Pseudotime 0; the root of the initial ordering is not left in place when
\* the refined root differs.
C27_StoredRootIsFinalRoot ==
    pc = "returned" =>
        LET stored == adata_uns["cell_order"]["root_cell"]
        IN  /\ stored = root_cell
            /\ cc_ordering_new_pseudotime = get_order_from_DDRTree(dp, mst, stored)
            /\ EdgesAt(mst, stored) = 1
            /\ adata_obs["Pseudotime"][stored] = 0

\* a completed run whose refined root is not the root of its initial
\* ordering
C27_Witness ==
    /\ pc = "returned"
    /\ \E r0 \in 0..(NCells - 1) :
          /\ r0 # adata_uns["cell_order"]["root_cell"]
          /\ EdgesAt(mst, r0) = 1
          /\ cc_ordering = get_order_from_DDRTree(dp, mst, r0)
    /\ cc_ordering # cc_ordering_new_pseudotime

\* the call that starts fails in select_root_cell because of its root_state
FailsByRootState ==
    /\ pc # "select_root"
    /\ pc' = "select_root"
    /\ root_state' # None
    /\ \A r \in select_root_cell(adata_obs', adata_uns', Z', root_state', reverse') :
          r.raised /\ r.err \in {ErrStateNotSet, ErrNoCells}

\* C28: when order_cells fails because of the requested root_state, the
\* data container is left as it was before the call: Pseudotime,
\* cell_pseudo_state and the cell_order metadata are neither written nor
\* overwritten.
C28_FailedCallLeavesContainer ==
    [][FailsByRootState => (adata_obs' = adata_obs /\ adata_uns' = adata_uns)]_vars

====
